---- MODULE Spec2Model ----
(***************************************************************************)
(* State-machine model of app/main.py: the payment-link service.           *)
(*   POST /links               create_link  (processor call, then put)     *)
(*   POST /webhook/mercadopago webhook_mp   (simulated or processor event) *)
(*   GET  /links/{id}          get_link                                    *)
(* The record store is the DynamoDB table the handlers share; the payment  *)
(* processor is an external collaborator whose answers are inputs.         *)
(***************************************************************************)
EXTENDS Integers, Sequences, FiniteSets, TLC

\* ---- bounds of the model ------------------------------------------------
MaxIds == 2      \* number of uuid4() draws explored
MaxRecon == 2    \* number of successful reconciliations explored

\* ---- values ---------------------------------------------------------------
Null == "<null>"                    \* Python None / JSON null
Truthy(v) == v \notin {Null, ""}    \* Python truthiness of an optional string
PyOr(a, b) == IF Truthy(a) THEN a ELSE b

UuidPool == 1 .. MaxIds
GhostId == MaxIds + 1               \* a well-formed id that uuid4 never produced
AllIds == UuidPool \cup {GhostId}

Users == {"alice"}
Amounts == {-1, 0, 5}
StatusStrings == {"pending", "approved"}
PaymentIds == {77}

\* An optional JSON key is a set: {} when the key is absent, {v} when present.
\* "data" is absent, null or an object; data_id is the "id" key of that object.
Body(ext, status, data, data_id) ==
  [external_reference |-> ext, status |-> status, data |-> data,
   data_id |-> data_id]

DirectBodies ==     \* {"external_reference": ..., "status": ...}
  {Body({i}, {s}, "absent", {}) : i \in UuidPool, s \in StatusStrings \cup {""}}
  \cup {Body({GhostId}, {"approved"}, "absent", {}),
        Body({GhostId}, {}, "absent", {}), Body({}, {"approved"}, "absent", {})}

EventBodies ==      \* {"type": "payment", "data": {"id": ...}}
  {Body({}, {}, "absent", {}), Body({}, {}, "null", {}),
   Body({}, {}, "object", {})}
  \cup {Body({}, {}, "object", {p}) : p \in PaymentIds}

MixedBodies ==      \* both forms in one payload
  {Body({GhostId}, {"approved"}, "object", {p}) : p \in PaymentIds}

Bodies == DirectBodies \cup EventBodies \cup MixedBodies

\* Answers of sdk.preference().create(pref_body)
Pref(raises, status, init_point, sandbox_init_point, id) ==
  [raises |-> raises, status |-> status, init_point |-> init_point,
   sandbox_init_point |-> sandbox_init_point, id |-> id]

PrefResponses ==
  {Pref(FALSE, 200, "https://mp/init", "https://mp/sandbox", "pref"),
   Pref(FALSE, 201, Null, "https://mp/sandbox", "pref"),
   Pref(FALSE, 200, "https://mp/init", Null, Null),
   Pref(FALSE, 201, Null, Null, "pref"),
   Pref(FALSE, 200, Null, Null, Null),
   Pref(FALSE, 400, "https://mp/init", Null, "pref"),
   Pref(TRUE, 400, Null, Null, Null)}

\* Answers of sdk.payment().get(payment_id)
PayResponses ==
  {[raises |-> FALSE, status |-> 200, external_reference |-> {i},
    pay_status |-> s] : i \in UuidPool, s \in {"approved", Null}}
  \cup {[raises |-> FALSE, status |-> 200, external_reference |-> {GhostId},
         pay_status |-> "approved"],
        [raises |-> FALSE, status |-> 200, external_reference |-> {},
         pay_status |-> "approved"],
        [raises |-> FALSE, status |-> 404, external_reference |-> {},
         pay_status |-> Null],
        [raises |-> TRUE, status |-> 404, external_reference |-> {},
         pay_status |-> Null]}

\* ---- what the model records of a request: the class of its inputs -------------
PrefClass(pref) ==
  IF pref.raises THEN "raises"
  ELSE IF pref.status \notin {200, 201} THEN "non_success"
  ELSE IF ~Truthy(pref.init_point) /\ ~Truthy(pref.sandbox_init_point)
          /\ ~Truthy(pref.id) THEN "lacks_both"
  ELSE IF ~Truthy(pref.init_point) /\ ~Truthy(pref.sandbox_init_point)
       THEN "lacks_url"
  ELSE IF ~Truthy(pref.id) THEN "lacks_id"
  ELSE "complete"

PayClass(pay) ==
  IF pay.raises THEN "raises"
  ELSE IF pay.status \notin {200, 201} THEN "non_success"
  ELSE IF pay.external_reference = {} THEN "no_reference"
  ELSE "found"

\* the payload has the form {external_reference, status}
IsDirect(body) == body.external_reference # {} /\ body.status # {}

DataClass(body) == IF body.data_id # {} THEN "id" ELSE body.data

VARIABLES
  USE_LOCAL_DDB,    \* DDB_LOCAL == "1"
  mercadopago,      \* the SDK import succeeded
  MP_ACCESS_TOKEN,  \* the token is present in the environment
  table,            \* the DynamoDB table: id -> item
  generated,        \* number of uuid4() draws so far
  prefLog,          \* external_reference of every create-preference call
  inflight,         \* create_link requests between the processor call and the put
  responses,        \* success bodies returned by create_link
  notified,         \* id -> reconciliations webhook_mp reported as successful
  last              \* the request step just handled and its outcome

vars == <<USE_LOCAL_DDB, mercadopago, MP_ACCESS_TOKEN, table, generated,
          prefLog, inflight, responses, notified, last>>

config == <<USE_LOCAL_DDB, mercadopago, MP_ACCESS_TOKEN>>

\* ---- the record store (boto3 Table) ----------------------------------------
\* put_item replaces the whole item stored under the item's key.
put_item(tbl, item) ==
  [k \in DOMAIN tbl \cup {item.id} |-> IF k = item.id THEN item ELSE tbl[k]]

\* variant: SET status = if_not_exists(status, :s), a status once written stays
update_item_keep_status(tbl, key, patch) ==
  LET old == IF key \in DOMAIN tbl THEN tbl[key] ELSE [id |-> key]
      new == [a \in DOMAIN old \cup DOMAIN patch |->
                IF a \in DOMAIN patch /\ ~(a = "status" /\ a \in DOMAIN old)
                THEN patch[a] ELSE old[a]]
  IN [k \in DOMAIN tbl \cup {key} |-> IF k = key THEN new ELSE tbl[k]]

\* update_item with "SET ..." and no ConditionExpression: the attributes are
\* set on the item under Key, which DynamoDB creates when it does not exist.
update_item(tbl, key, patch) ==
  LET old == IF key \in DOMAIN tbl THEN tbl[key] ELSE [id |-> key]
      new == [a \in DOMAIN old \cup DOMAIN patch |->
                IF a \in DOMAIN patch THEN patch[a] ELSE old[a]]
  IN [k \in DOMAIN tbl \cup {key} |-> IF k = key THEN new ELSE tbl[k]]

\* ---- pure helpers ------------------------------------------------------------
\* variant: the validator compares with >= instead of >
positive_amount_or_zero(v) == v >= 0

\* PaymentIn.positive_amount: TRUE when the validator accepts v
positive_amount(v) == v > 0

\* variant: an id generator that repeats itself
uuid4_repeating(g) == 1

\* uuid.uuid4(): the g+1-th draw differs from every earlier draw
uuid4(g) == g + 1

\* datetime.utcnow().isoformat() + "Z": a timestamp, whose value no handler reads
utcnow == "<utcnow>Z"

\* Decimal(str(p.amount)) and its way back through _normalize
Decimal(v) == [decimal |-> v]

_normalize(item) ==
  [k \in DOMAIN item |->
     IF k = "amount" THEN item[k].decimal ELSE item[k]]

get_link(link_id) ==
  IF link_id \in DOMAIN table
  THEN _normalize(table[link_id])
  ELSE [error |-> "not_found", id |-> link_id]

mp_status_ok(s) == s \in {200, 201}

\* variant: the answer of the processor is not inspected
pref_usable_unchecked(init_point, preference_id) == TRUE

\* line 127: not (not init_point or not preference_id)
pref_usable(init_point, preference_id) ==
  Truthy(init_point) /\ Truthy(preference_id)

\* variant: the branch is not guarded by USE_LOCAL_DDB
is_simulated_any_mode(body) ==
  body.external_reference # {} /\ body.status # {}

\* line 167: the direct-update branch is taken
is_simulated(body) ==
  USE_LOCAL_DDB /\ body.external_reference # {} /\ body.status # {}

TheOne(S) == CHOOSE x \in S : TRUE

\* ids a notification can name: those sent to the processor, and a forged one
KnownIds == (1 .. generated) \cup {GhostId}

RECURSIVE SumLen(_)
SumLen(S) ==
  IF S = {} THEN 0
  ELSE LET x == CHOOSE y \in S : TRUE
       IN Len(notified[x]) + SumLen(S \ {x})

\* successful reconciliations so far
Reconciled == SumLen(AllIds)

ReturnedIds == {responses[i].id : i \in 1 .. Len(responses)}
InflightIds == {r.id : r \in inflight}

Phase(id) ==
  IF id \in ReturnedIds THEN "stored"
  ELSE IF id \in InflightIds THEN "inflight" ELSE "absent"

Notify(id, s) ==
  [notified EXCEPT ![id] = Append(@, [status |-> s, phase |-> Phase(id)])]

CreateStep(outcome, amount, pref) ==
  [op |-> "create_link", outcome |-> outcome, amount |-> amount, pref |-> pref,
   direct |-> FALSE, data |-> "absent", lookup |-> "none"]

WebhookStep(outcome, body, lookup) ==
  [op |-> "webhook_mp", outcome |-> outcome, amount |-> 0, pref |-> "none",
   direct |-> IsDirect(body), data |-> DataClass(body), lookup |-> lookup]

ReadStep(outcome) ==
  [op |-> "get_link", outcome |-> outcome, amount |-> 0, pref |-> "none",
   direct |-> FALSE, data |-> "absent", lookup |-> "none"]

\* ---- initial state -----------------------------------------------------------
Init ==
  /\ USE_LOCAL_DDB \in BOOLEAN
  /\ mercadopago \in BOOLEAN
  /\ MP_ACCESS_TOKEN \in BOOLEAN
  /\ table = <<>>
  /\ generated = 0
  /\ prefLog = <<>>
  /\ inflight = {}
  /\ responses = <<>>
  /\ notified = [i \in AllIds |-> <<>>]
  /\ last = [ReadStep("ok") EXCEPT !.op = "start"]

\* ---- create_link (POST /links) -----------------------------------------------
\* The request body is rejected by PaymentIn before the handler body runs.
CreateLinkInvalid ==
  \E user \in Users, amount \in Amounts :
    /\ ~positive_amount(amount)
    /\ last' = CreateStep("ValidationError", amount, "none")
    /\ UNCHANGED <<config, table, generated, prefLog, inflight, responses,
                   notified>>

\* lines 92-95: SDK or token missing
CreateLinkUnconfigured ==
  \E user \in Users, amount \in Amounts :
    /\ positive_amount(amount)
    /\ ~mercadopago \/ ~MP_ACCESS_TOKEN
    /\ last' = CreateStep("HTTP500", amount, "none")
    /\ UNCHANGED <<config, table, generated, prefLog, inflight, responses,
                   notified>>

\* lines 97-132: draw the id and create the preference at the processor
CreateLinkPreference ==
  \E user \in Users, amount \in Amounts, pref \in PrefResponses :
    /\ positive_amount(amount)
    /\ mercadopago /\ MP_ACCESS_TOKEN
    /\ generated < MaxIds
    /\ LET item_id == uuid4(generated)
           init_point == PyOr(pref.init_point, pref.sandbox_init_point)
           preference_id == pref.id
           accepted == /\ ~pref.raises
                       /\ mp_status_ok(pref.status)
                       /\ pref_usable(init_point, preference_id)
       IN /\ generated' = generated + 1
          /\ prefLog' = Append(prefLog, item_id)
          /\ IF accepted
             THEN /\ inflight' = inflight \cup
                       {[id |-> item_id, user |-> user, amount |-> amount,
                         init_point |-> init_point,
                         preference_id |-> preference_id]}
                  /\ last' = CreateStep("in_progress", amount, PrefClass(pref))
             ELSE /\ inflight' = inflight
                  /\ last' = CreateStep("HTTP502", amount, PrefClass(pref))
    /\ UNCHANGED <<config, table, responses, notified>>

\* lines 134-153: build the item, put it, answer.  A put_item that raises is
\* not caught by the handler.
CreateLinkPut ==
  \E r \in inflight, storeOk \in BOOLEAN :
    /\ inflight' = inflight \ {r}
    /\ LET item == [id |-> r.id, user |-> r.user, amount |-> Decimal(r.amount),
                    status |-> "CREATED", payment_provider |-> "mercadopago",
                    mp_preference_id |-> r.preference_id,
                    payment_url |-> r.init_point, created_at |-> utcnow]
       IN IF storeOk
          THEN /\ table' = put_item(table, item)
               /\ responses' = Append(responses,
                     [id |-> item.id, status |-> item.status,
                      payment_url |-> r.init_point,
                      mp_preference_id |-> r.preference_id])
               /\ last' = CreateStep("ok", r.amount, "none")
          ELSE /\ UNCHANGED <<table, responses>>
               /\ last' = CreateStep("Unhandled", r.amount, "none")
    /\ UNCHANGED <<config, generated, prefLog, notified>>

\* ---- webhook_mp (POST /webhook/mercadopago) ------------------------------------
\* lines 167-176: direct update, no call to the processor.  An update_item
\* that raises is not caught by the handler.
WebhookSimulated ==
  \E body \in Bodies, storeOk \in BOOLEAN :
    /\ is_simulated(body)
    /\ body.external_reference \subseteq KnownIds
    /\ Reconciled < MaxRecon
    /\ LET ext == TheOne(body.external_reference)
           new_status == TheOne(body.status)
       IN IF storeOk
          THEN /\ table' = update_item(table, ext,
                     [status |-> new_status, updated_at |-> utcnow])
               /\ notified' = Notify(ext, new_status)
               /\ last' = WebhookStep("ok", body, "none")
          ELSE /\ UNCHANGED <<table, notified>>
               /\ last' = WebhookStep("Unhandled", body, "none")
    /\ UNCHANGED <<config, generated, prefLog, inflight, responses>>

\* lines 179-180
WebhookUnconfigured ==
  \E body \in Bodies :
    /\ ~is_simulated(body)
    /\ ~mercadopago \/ ~MP_ACCESS_TOKEN
    /\ last' = WebhookStep("HTTP500", body, "none")
    /\ UNCHANGED <<config, table, generated, prefLog, inflight, responses,
                   notified>>

\* lines 185-187 and 213-214: body.get("data", {}).get("id") on "data": null
\* raises AttributeError, which the handler reports as 500.
WebhookNoPaymentId ==
  \E body \in Bodies :
    /\ ~is_simulated(body)
    /\ mercadopago /\ MP_ACCESS_TOKEN
    /\ body.data_id = {}
    /\ last' = WebhookStep(IF body.data = "null" THEN "HTTP500" ELSE "HTTP400",
                           body, "none")
    /\ UNCHANGED <<config, table, generated, prefLog, inflight, responses,
                   notified>>

\* lines 189-198 and 211-214: the lookup fails, or names no record
WebhookLookupRejected ==
  \E body \in Bodies, pay \in PayResponses :
    /\ ~is_simulated(body)
    /\ mercadopago /\ MP_ACCESS_TOKEN
    /\ body.data_id # {}
    /\ pay.raises \/ ~mp_status_ok(pay.status) \/ pay.external_reference = {}
    /\ last' = WebhookStep(IF pay.raises THEN "HTTP500"
                           ELSE IF ~mp_status_ok(pay.status) THEN "HTTP502"
                           ELSE "HTTP400",
                           body, PayClass(pay))
    /\ UNCHANGED <<config, table, generated, prefLog, inflight, responses,
                   notified>>

\* lines 189-210: the lookup succeeds and the record it names is updated
WebhookReconcile ==
  \E body \in Bodies, pay \in PayResponses, storeOk \in BOOLEAN :
    /\ ~is_simulated(body)
    /\ mercadopago /\ MP_ACCESS_TOKEN
    /\ body.data_id # {}
    /\ ~pay.raises /\ mp_status_ok(pay.status) /\ pay.external_reference # {}
    /\ pay.external_reference \subseteq KnownIds
    /\ Reconciled < MaxRecon
    /\ LET payment_id == TheOne(body.data_id)
           ext == TheOne(pay.external_reference)
           new_status == pay.pay_status
       IN IF storeOk
          THEN /\ table' = update_item(table, ext,
                     [status |-> new_status,
                      mp_payment_id |-> ToString(payment_id),
                      updated_at |-> utcnow])
               /\ notified' = Notify(ext, new_status)
               /\ last' = WebhookStep("ok", body, PayClass(pay))
          ELSE /\ UNCHANGED <<table, notified>>
               /\ last' = WebhookStep("HTTP500", body, PayClass(pay))
    /\ UNCHANGED <<config, generated, prefLog, inflight, responses>>

\* ---- get_link (GET /links/{link_id}) -------------------------------------------
GetLink ==
  \E link_id \in AllIds :
    /\ last' = ReadStep(IF "error" \in DOMAIN get_link(link_id)
                        THEN "not_found" ELSE "ok")
    /\ UNCHANGED <<config, table, generated, prefLog, inflight, responses,
                   notified>>

Next ==
  \/ CreateLinkInvalid
  \/ CreateLinkUnconfigured
  \/ CreateLinkPreference
  \/ CreateLinkPut
  \/ WebhookSimulated
  \/ WebhookUnconfigured
  \/ WebhookNoPaymentId
  \/ WebhookLookupRejected
  \/ WebhookReconcile
  \/ GetLink

Spec == Init /\ [][Next]_vars

\* ---- properties ------------------------------------------------------------------
Statuses(log) == [i \in 1 .. Len(log) |-> log[i].status]
Phases(log) == {log[i].phase : i \in 1 .. Len(log)}
WriteOps == {"create_link", "webhook_mp"}
ReportedOutcomes ==
  {"in_progress", "ok", "ValidationError", "HTTP400", "HTTP500", "HTTP502"}

\* C1: every id present in the store was put there by a successful create_link;
\* a reconciliation whose external_reference matches no stored record leaves
\* the store without a record for that id.
C1_RecordsOnlyFromCreateLink ==
  \A id \in DOMAIN table : id \in ReturnedIds

\* C2: every failure inside create_link and webhook_mp, a failing store call
\* included, is caught by the handler and reported as one of the error kinds
\* (400, 500, 502); no exception leaves the handler.
C2_EveryFailureReported ==
  last.op \in WriteOps => last.outcome \in ReportedOutcomes

\* C3: a creation request with amount <= 0 fails with ValidationError and
\* performs neither a create-preference call nor a store write, whatever the
\* configuration of the processor integration.
C3_NonPositiveAmountRejected ==
  [][(last'.op = "create_link" /\ last'.amount <= 0)
       => /\ last'.outcome = "ValidationError"
          /\ table' = table
          /\ prefLog' = prefLog
          /\ inflight' = inflight]_vars

C3_Witness ==
  /\ last.op = "create_link" /\ last.amount = 0
  /\ last.outcome = "ValidationError"
  /\ mercadopago /\ MP_ACCESS_TOKEN
  /\ table # <<>>

\* C4: when the create-preference call raises, answers with a status other
\* than 200/201, or answers without the checkout URL or the session id,
\* create_link fails with 502 and the store is left as it was.
C4_UpstreamFailureNoWrite ==
  [][(last'.op = "create_link"
      /\ last'.pref \in {"raises", "non_success", "lacks_both", "lacks_url",
                         "lacks_id"})
       => /\ last'.outcome = "HTTP502"
          /\ table' = table
          /\ inflight' = inflight
          /\ responses' = responses]_vars

C4_Witness ==
  /\ last.op = "create_link" /\ last.pref = "lacks_both"
  /\ last.outcome = "HTTP502"
  /\ table # <<>>

\* C5 (stated for a configured integration): a processor-event notification
\* whose data.id is absent fails with 400 without a lookup and without a store
\* write, and one whose payment lookup succeeds but names no
\* external_reference fails with 400 and leaves the store untouched.
C5_EventValidation ==
  [][(/\ last'.op = "webhook_mp"
      /\ ~(USE_LOCAL_DDB /\ last'.direct)
      /\ mercadopago /\ MP_ACCESS_TOKEN
      /\ last'.data # "id" \/ last'.lookup = "no_reference")
       => /\ last'.outcome = "HTTP400"
          /\ last'.data # "id" => last'.lookup = "none"
          /\ table' = table]_vars

\* C6: reconciliation is last-write-wins: after any sequence of successful
\* reconciliations of a record that create_link has stored, a read of the
\* record shows the status of the last one.
C6_LastWriteWins ==
  \A x \in AllIds :
    (notified[x] # <<>> /\ notified[x][Len(notified[x])].phase = "stored")
      => /\ "error" \notin DOMAIN get_link(x)
         /\ get_link(x).status = notified[x][Len(notified[x])].status

C6_Witness ==
  \E x \in AllIds :
    /\ Statuses(notified[x]) = <<"approved", "pending">>
    /\ Phases(notified[x]) = {"stored"}
    /\ get_link(x).status = "pending"

\* C7: the ids returned by create_link are pairwise different, and while no
\* reconciliation for a returned id has been applied, get_link of it shows
\* the same id, status CREATED and the payment_url that create_link returned.
C7_IdUniqueAndStable ==
  /\ \A i, j \in 1 .. Len(responses) :
       i # j => responses[i].id # responses[j].id
  /\ \A i \in 1 .. Len(responses) :
       notified[responses[i].id] = <<>>
         => /\ "error" \notin DOMAIN get_link(responses[i].id)
            /\ get_link(responses[i].id).id = responses[i].id
            /\ get_link(responses[i].id).status = "CREATED"
            /\ get_link(responses[i].id).payment_url = responses[i].payment_url

C7_Witness ==
  /\ Len(responses) = 2
  /\ responses[1].payment_url # responses[2].payment_url
  /\ \A i \in 1 .. Len(responses) : notified[responses[i].id] = <<>>

\* C8: against the remote store (DDB_LOCAL off) the only steps that change the
\* store are create_link's put and a webhook_mp whose payload carries data.id
\* and whose payment lookup for it succeeded; a payload of the form
\* {external_reference, status} alone never changes the store.
C8_DirectUpdateOnlyInSimulation ==
  [][(~USE_LOCAL_DDB /\ table' # table)
       => \/ last'.op = "create_link" /\ last'.outcome = "ok"
          \/ /\ last'.op = "webhook_mp" /\ last'.outcome = "ok"
             /\ last'.data = "id" /\ last'.lookup = "found"]_vars

C8_Witness ==
  /\ ~USE_LOCAL_DDB
  /\ last.op = "webhook_mp" /\ last.direct /\ last.data = "absent"
  /\ last.outcome = "HTTP400"
  /\ \E id \in DOMAIN table : table[id].status = "CREATED"

\* C9: a reconciliation of status s for id X that webhook_mp reports as
\* successful between create_link's processor call for X and its put is still
\* on the record once create_link has answered: get_link(X) shows status s.
C9_EarlyNotificationKept ==
  \A x \in ReturnedIds :
    (Len(notified[x]) = 1 /\ notified[x][1].phase = "inflight")
      => get_link(x).status = notified[x][1].status

\* C10: the status of every stored record is a non-empty string.
C10_StatusNonEmpty ==
  \A id \in DOMAIN table : Truthy(table[id].status)

====
